---- MODULE Spec2Model ----
(***************************************************************************)
(* Model of the token exchange (src/delivery/http/token.rs) and of the     *)
(* error taxonomy (src/delivery/errors/mod.rs) of delivery-cli.            *)
(*                                                                         *)
(* Text is modelled as a sequence of characters (one-character strings).   *)
(* A message built by format! is a sequence of pieces whose concatenation  *)
(* is the message: string literals are one piece each, formatted numbers   *)
(* are one piece per decimal digit.                                        *)
(* Option<T> is a sequence of length at most one: None == <<>>,            *)
(* Some(x) == <<x>>.                                                       *)
(***************************************************************************)
EXTENDS Integers, Sequences, FiniteSets, TLC

VARIABLES
    \* ---- request() of token.rs: one call ----
    pc,           \* position in request(): "start", "payload", "post", "match", "read", "parse", "done"
    server, ent,  \* arguments of request
    user, pass,   \* arguments of request
    client,       \* Option: the APIClient built by new_https
    payload,      \* Option: the encoded credential payload
    posts,        \* sequence of the POSTs issued: [path, payload, https]
    response,     \* Option: [status, body] returned by client.post
    body_string,  \* Option: the text read from the response body
    result,       \* Option: the value request returns, Ok(token) or Err(DeliveryError)
    steps,        \* the external steps the call has run, in order
    \* ---- errors/mod.rs: one error value and what its accessors return ----
    ext,          \* Option: the external error a conversion was applied to
    error,        \* Option: the DeliveryError under inspection
    seen,         \* Option: [description, display, detail, cause] read from error
    \* ---- TokenRequest / TokenResponse codec ----
    treqUser, treqPass,  \* inputs of TokenRequest::payload
    text,         \* Option: Result of TokenRequest::payload
    decoded       \* Option: Result of decoding text back as a TokenRequest

reqVars == <<pc, server, ent, user, pass, client, payload, posts, response,
             body_string, result, steps>>
errVars == <<ext, error, seen>>
codecVars == <<treqUser, treqPass, text, decoded>>
vars == <<reqVars, errVars, codecVars>>

----------------------------------------------------------------------------
(* Bounds *)

\* longest username / password drawn as an input
MaxLen == 2

----------------------------------------------------------------------------
(* Option and Result *)

None == <<>>
Some(x) == <<x>>
IsSome(o) == Len(o) = 1
Unwrap(o) == o[1]

Ok(v) == [ok |-> TRUE, val |-> v]
Err(e) == [ok |-> FALSE, val |-> e]

----------------------------------------------------------------------------
(* Characters and strings *)

QUOTE == "\""
BSL == "\\"
NL == "\n"

\* the characters inputs are drawn from: one that json leaves alone and the
\* three kinds json escapes differently
Alphabet == {"a", QUOTE, BSL, NL}

RECURSIVE StringsUpTo(_, _)
StringsUpTo(A, n) ==
    IF n = 0 THEN {<<>>}
    ELSE LET shorter == StringsUpTo(A, n - 1)
         IN shorter \cup {Append(s, c) : s \in shorter, c \in A}

Strings == StringsUpTo(Alphabet, MaxLen)

RECURSIVE Concat(_)
Concat(ss) == IF ss = <<>> THEN <<>> ELSE Head(ss) \o Concat(Tail(ss))

\* TRUE iff needle occurs in hay as a contiguous run
Contains(hay, needle) ==
    \E i \in 0..(Len(hay) - Len(needle)) :
        \A j \in 1..Len(needle) : hay[i + j] = needle[j]

Digit == <<"0", "1", "2", "3", "4", "5", "6", "7", "8", "9">>
IsDigit(c) == \E d \in 1..10 : Digit[d] = c

\* decimal rendering of a natural number, as {} formats a u16
RECURSIVE Decimal(_)
Decimal(n) ==
    IF n < 10 THEN <<Digit[n + 1]>>
    ELSE Append(Decimal(n \div 10), Digit[(n % 10) + 1])

----------------------------------------------------------------------------
(* The JSON codec as token.rs uses it (rustc_serialize::json, derived      *)
(* RustcEncodable / RustcDecodable), on objects whose values are strings,  *)
(* numbers or objects, without whitespace.                                 *)

\* the field names of the two records
FieldUsername == <<"u", "s", "e", "r", "n", "a", "m", "e">>
FieldPassword == <<"p", "a", "s", "s", "w", "o", "r", "d">>
FieldToken == <<"t", "o", "k", "e", "n">>

\* the external error values and their description()
EncoderError == [domain |-> "json::EncoderError", variant |-> "FmtError",
                 info |-> "", description |-> "encoder error"]
DecoderError(variant, info) ==
    [domain |-> "json::DecoderError", variant |-> variant,
     info |-> info, description |-> "decoder error"]
ParserError(code) ==
    [domain |-> "json::ParserError", variant |-> "SyntaxError",
     info |-> code, description |-> "failed to parse json"]

\* a string character as it is written inside a JSON string
escape_char(c) ==
    IF c = QUOTE THEN <<BSL, QUOTE>>
    ELSE IF c = BSL THEN <<BSL, BSL>>
    ELSE IF c = NL THEN <<BSL, "n">>
    ELSE <<c>>

escape_str(s) ==
    <<QUOTE>> \o Concat([i \in 1..Len(s) |-> escape_char(s[i])]) \o <<QUOTE>>

\* one field of a derived struct encoder: fields after the first are
\* preceded by a comma
emit_struct_field(idx, name, value) ==
    (IF idx # 0 THEN <<",">> ELSE <<>>)
        \o escape_str(name) \o <<":">> \o escape_str(value)

\* #[derive(RustcEncodable)] struct TokenRequest { username, password }
TokenRequest(u, p) == [username |-> u, password |-> p]

encode_TokenRequest(treq) ==
    <<"{">> \o emit_struct_field(0, FieldUsername, treq.username)
            \o emit_struct_field(1, FieldPassword, treq.password)
            \o <<"}">>

\* json::encode(&treq): the encoder either writes the whole text or fails
json_encode(treq, writeOk) ==
    IF writeOk THEN Ok(encode_TokenRequest(treq)) ELSE Err(EncoderError)

\* ---- the parser ----
PFail(code) == [ok |-> FALSE, val |-> code, next |-> 0]
POk(v, n) == [ok |-> TRUE, val |-> v, next |-> n]

JString(s) == [type |-> "String", v |-> s]
JU64(ds) == [type |-> "U64", v |-> ds]
JObject(members) == [type |-> "Object", v |-> members]

\* the characters of a string, from position i (after the opening quote)
RECURSIVE parse_str(_, _, _)
parse_str(s, i, acc) ==
    IF i > Len(s) THEN PFail("EOFWhileParsingString")
    ELSE IF s[i] = QUOTE THEN POk(acc, i + 1)
    ELSE IF s[i] = BSL THEN
        IF i + 1 > Len(s) THEN PFail("EOFWhileParsingString")
        ELSE IF s[i + 1] \in {QUOTE, BSL, "/"}
            THEN parse_str(s, i + 2, Append(acc, s[i + 1]))
        ELSE IF s[i + 1] = "n" THEN parse_str(s, i + 2, Append(acc, NL))
        ELSE PFail("InvalidEscape")
    ELSE parse_str(s, i + 1, Append(acc, s[i]))

RECURSIVE parse_number(_, _, _)
parse_number(s, i, acc) ==
    IF i <= Len(s) /\ IsDigit(s[i])
    THEN parse_number(s, i + 1, Append(acc, s[i]))
    ELSE POk(JU64(acc), i)

RECURSIVE parse_value(_, _)
RECURSIVE parse_members(_, _, _)

parse_object(s, i) ==
    IF i + 1 > Len(s) THEN PFail("EOFWhileParsingObject")
    ELSE IF s[i + 1] = "}" THEN POk(JObject(<<>>), i + 2)
    ELSE parse_members(s, i + 1, <<>>)

parse_value(s, i) ==
    IF i > Len(s) THEN PFail("EOFWhileParsingValue")
    ELSE IF s[i] = QUOTE THEN
        LET r == parse_str(s, i + 1, <<>>)
        IN IF r.ok THEN POk(JString(r.val), r.next) ELSE r
    ELSE IF IsDigit(s[i]) THEN parse_number(s, i, <<>>)
    ELSE IF s[i] = "{" THEN parse_object(s, i)
    ELSE PFail("InvalidSyntax")

parse_members(s, i, acc) ==
    IF i > Len(s) THEN PFail("EOFWhileParsingObject")
    ELSE IF s[i] # QUOTE THEN PFail("KeyMustBeAString")
    ELSE LET k == parse_str(s, i + 1, <<>>)
         IN IF ~k.ok THEN k
            ELSE IF k.next > Len(s) THEN PFail("EOFWhileParsingObject")
            ELSE IF s[k.next] # ":" THEN PFail("ExpectedColon")
            ELSE LET v == parse_value(s, k.next + 1)
                     more == Append(acc, [key |-> k.val, value |-> v.val])
                 IN IF ~v.ok THEN v
                    ELSE IF v.next > Len(s) THEN PFail("EOFWhileParsingObject")
                    ELSE IF s[v.next] = "," THEN parse_members(s, v.next + 1, more)
                    ELSE IF s[v.next] = "}" THEN POk(JObject(more), v.next + 1)
                    ELSE PFail("InvalidSyntax")

\* Json::from_str: one value, and nothing after it
json_from_str(s) ==
    LET r == parse_value(s, 1)
    IN IF ~r.ok THEN Err(ParserError(r.val))
       ELSE IF r.next # Len(s) + 1 THEN Err(ParserError("TrailingCharacters"))
       ELSE Ok(r.val)

\* the object is a map: a key written twice keeps its last value
RECURSIVE find_member(_, _, _)
find_member(members, key, i) ==
    IF i = 0 THEN None
    ELSE IF members[i].key = key THEN Some(members[i].value)
    ELSE find_member(members, key, i - 1)

\* Decoder::read_struct_field followed by read_str
read_str_field(json, name) ==
    IF json.type # "Object" THEN Err(DecoderError("ExpectedError", "Object"))
    ELSE LET f == find_member(json.v, name, Len(json.v))
         IN IF ~IsSome(f) THEN Err(DecoderError("MissingFieldError", "field"))
            ELSE IF Unwrap(f).type # "String"
                THEN Err(DecoderError("ExpectedError", "String"))
            ELSE Ok(Unwrap(f).v)

\* json::decode::<TokenResponse>(text)
decode_TokenResponse(s) ==
    LET j == json_from_str(s)
    IN IF ~j.ok THEN Err(DecoderError("ParseError", j.val.info))
       ELSE LET t == read_str_field(j.val, FieldToken)
            IN IF ~t.ok THEN t ELSE Ok([token |-> t.val])

\* json::decode::<TokenRequest>(text)
decode_TokenRequest(s) ==
    LET j == json_from_str(s)
    IN IF ~j.ok THEN Err(DecoderError("ParseError", j.val.info))
       ELSE LET u == read_str_field(j.val, FieldUsername)
                p == read_str_field(j.val, FieldPassword)
            IN IF ~u.ok THEN u
               ELSE IF ~p.ok THEN p
               ELSE Ok(TokenRequest(u.val, p.val))

----------------------------------------------------------------------------
(* errors/mod.rs *)

\* the variants of Kind that carry no data, in declaration order
BareKinds ==
    {"AuthenticationFailed", "NoMatchingCommand", "NotOnABranch",
     "CannotReviewSameBranch", "FailedToExecute", "PushFailed",
     "BadGitOutputMatch", "NoConfig", "GitFailed", "GitSetupFailed",
     "ConfigParse", "MissingConfig", "ConfigValidation", "IoError",
     "JsonError", "JsonEncode", "NoBuildCookbook", "NoHomedir",
     "ExpectedJsonString", "BerksFailed", "NoValidBuildCookbook",
     "CopyFailed", "MissingBuildCookbookName", "SupermarketFailed",
     "MoveFailed", "TarFailed", "MissingBuildCookbookField",
     "ChefServerFailed", "ChownFailed", "ChefFailed", "ChmodFailed",
     "UnsupportedHttpMethod", "JsonParseError", "OpenFailed", "NoToken"}

\* a Kind is its variant and the data the variant carries
Kind(tag) == [tag |-> tag, arg |-> <<>>]
KindHttpError(e) == [tag |-> "HttpError", arg |-> <<e>>]
KindApiError(status, body) == [tag |-> "ApiError", arg |-> <<status, body>>]

DeliveryError(kind, detail) == [kind |-> kind, detail |-> detail]

\* DeliveryError::detail
detail(self) == self.detail

\* <DeliveryError as Error>::description
description(self) ==
    CASE self.kind.tag = "NoMatchingCommand" -> "No command matches your arguments - likely unimplemented feature"
      [] self.kind.tag = "NotOnABranch" -> "You must be on a branch"
      [] self.kind.tag = "CannotReviewSameBranch" -> "You cannot target code for review from the same branch as the review is targeted for"
      [] self.kind.tag = "FailedToExecute" -> "Tried to fork a process, and failed"
      [] self.kind.tag = "PushFailed" -> "Git Push failed!"
      [] self.kind.tag = "GitFailed" -> "Git command failed!"
      [] self.kind.tag = "GitSetupFailed" -> "Setup failed; you have already set up delivery."
      [] self.kind.tag = "BadGitOutputMatch" -> "A line of git porcelain did not match!"
      [] self.kind.tag = "NoConfig" -> "Cannot find a .git/config file"
      [] self.kind.tag = "ConfigParse" -> "Failed to parse the cli config file"
      [] self.kind.tag = "MissingConfig" -> "A configuration value is missing"
      [] self.kind.tag = "ConfigValidation" -> "A required option is missing - use the command line options or 'delivery setup'"
      [] self.kind.tag = "IoError" -> "An I/O Error occurred"
      [] self.kind.tag = "JsonError" -> "A JSON Parser error occured"
      [] self.kind.tag = "JsonEncode" -> "A JSON Encoding error occured"
      [] self.kind.tag = "NoBuildCookbook" -> "No build_cookbook entry in .delivery/config.json"
      [] self.kind.tag = "NoHomedir" -> "Cannot find a homedir"
      [] self.kind.tag = "BerksFailed" -> "Berkshelf command failed"
      [] self.kind.tag = "ExpectedJsonString" -> "Expected a JSON string"
      [] self.kind.tag = "NoValidBuildCookbook" -> "Cannot find a valid build_cookbook entry in .delivery/config.json"
      [] self.kind.tag = "MissingBuildCookbookName" -> "You must have a name field in you build_cookbook"
      [] self.kind.tag = "CopyFailed" -> "Failed to copy files"
      [] self.kind.tag = "SupermarketFailed" -> "Failed to download a cookbook from the supermarket"
      [] self.kind.tag = "TarFailed" -> "Cannot untar a file"
      [] self.kind.tag = "MoveFailed" -> "Cannot move a file"
      [] self.kind.tag = "MissingBuildCookbookField" -> "Missing a required field in your build_cookbook"
      [] self.kind.tag = "ChefServerFailed" -> "Failed to download a cookbook from the Chef Server"
      [] self.kind.tag = "ChownFailed" -> "Cannot set ownership to the dbuild user and group"
      [] self.kind.tag = "ChefFailed" -> "Chef Client failed"
      [] self.kind.tag = "ChmodFailed" -> "Cannot set permissions"
      [] self.kind.tag = "UnsupportedHttpMethod" -> "Unsupported HTTP method"
      [] self.kind.tag = "HttpError" -> "An HTTP Error occured"
      [] self.kind.tag = "ApiError" -> "An API Error occured"
      [] self.kind.tag = "JsonParseError" -> "Attempted to parse invalid JSON"
      [] self.kind.tag = "OpenFailed" -> "Open command failed"
      [] self.kind.tag = "AuthenticationFailed" -> "Authentication failed"
      \* (the back quotes of the source text are written ' here)
      [] self.kind.tag = "NoToken" -> "Missing API token. Try 'delivery token' to create one"

\* cause() that forgets the failed body read of an ApiError
cause_http_only(self) ==
    IF self.kind.tag = "HttpError" THEN Some(self.kind.arg[1]) ELSE None

\* <DeliveryError as Error>::cause
cause(self) ==
    IF self.kind.tag = "HttpError" THEN Some(self.kind.arg[1])
    ELSE IF self.kind.tag = "ApiError" THEN
        IF self.kind.arg[2].ok THEN None ELSE Some(self.kind.arg[2].val)
    ELSE None

\* a Display that appends the detail to the description
display_with_detail(self) ==
    <<description(self)>> \o (IF IsSome(self.detail) THEN Unwrap(self.detail) ELSE <<>>)

\* <DeliveryError as fmt::Display>::fmt, as the text it writes
display(self) == <<description(self)>>

\* FromError<json::EncoderError>
from_error_EncoderError(err) ==
    DeliveryError(Kind("JsonEncode"), Some(<<err.description>>))

\* the decoder conversion with the kind of the parser conversion
from_error_DecoderError_as_JsonError(err) ==
    DeliveryError(Kind("JsonError"), Some(<<err.description>>))

\* FromError<json::DecoderError>
from_error_DecoderError(err) ==
    DeliveryError(Kind("JsonParseError"), Some(<<err.description>>))

\* FromError<io::Error>: the detail is the error as {} formats it
from_error_IoError(err) ==
    DeliveryError(Kind("IoError"), Some(<<err.display>>))

\* FromError<json::ParserError>
from_error_ParserError(err) ==
    DeliveryError(Kind("JsonError"), Some(<<err.description>>))

\* FromError<hyper::HttpError>
from_error_HttpError(err) ==
    DeliveryError(KindHttpError(err), Some(<<err.description>>))

\* the conversion try! picks for an error, by its type; a DeliveryError
\* converts to itself
from_error(err) ==
    IF "kind" \in DOMAIN err THEN err ELSE
    CASE err.domain = "json::EncoderError" -> from_error_EncoderError(err)
      [] err.domain = "json::DecoderError" -> from_error_DecoderError(err)
      [] err.domain = "io::Error" -> from_error_IoError(err)
      [] err.domain = "json::ParserError" -> from_error_ParserError(err)
      [] err.domain = "hyper::HttpError" -> from_error_HttpError(err)

\* try!(r): the value of r, or an early return of the converted error.
\* next is where the function goes on when r is Ok.
Try(r, next) ==
    IF r.ok THEN [pc |-> next, ret |-> None]
    ELSE [pc |-> "done", ret |-> Some(Err(from_error(r.val)))]

----------------------------------------------------------------------------
(* http/token.rs *)

\* payload() with the two arguments stored in each other's field
TokenRequest_payload_swapped(u, p, writeOk) ==
    LET encoded == json_encode(TokenRequest(p, u), writeOk)
    IN IF encoded.ok THEN Ok(encoded.val) ELSE Err(from_error(encoded.val))

\* payload() that goes on with an empty payload when the encoder fails
TokenRequest_payload_unchecked(u, p, writeOk) ==
    LET encoded == json_encode(TokenRequest(u, p), writeOk)
    IN IF encoded.ok THEN Ok(encoded.val) ELSE Ok(<<>>)

\* TokenRequest::payload
TokenRequest_payload(u, p, writeOk) ==
    LET treq == TokenRequest(u, p)
        encoded == json_encode(treq, writeOk)
    IN IF encoded.ok THEN Ok(encoded.val) ELSE Err(from_error(encoded.val))

\* parse_token() that returns the body as the token
parse_token_body(resp) ==
    LET tresponse == decode_TokenResponse(resp)
    IN IF tresponse.ok THEN Ok(resp) ELSE Err(from_error(tresponse.val))

\* parse_token() that answers an empty token for a body it cannot decode
parse_token_lenient(resp) ==
    LET tresponse == decode_TokenResponse(resp)
    IN IF tresponse.ok THEN Ok(tresponse.val.token) ELSE Ok(<<>>)

\* TokenResponse::parse_token
parse_token(resp) ==
    LET tresponse == decode_TokenResponse(resp)
    IN IF tresponse.ok THEN Ok(tresponse.val.token)
       ELSE Err(from_error(tresponse.val))

\* format!("users/{}/get-token", &user)
format_path(u) == <<"users/">> \o u \o <<"/get-token">>

\* the statuses a server answers with, by their numeric code
Statuses == {200, 201, 401, 403, 404, 500, 503}

canonical_reason(code) ==
    CASE code = 200 -> "OK"
      [] code = 201 -> "Created"
      [] code = 401 -> "Unauthorized"
      [] code = 403 -> "Forbidden"
      [] code = 404 -> "Not Found"
      [] code = 500 -> "Internal Server Error"
      [] code = 503 -> "Service Unavailable"
      [] OTHER -> "<unknown status code>"

\* a StatusCode as {} formats it: the number, then the canonical reason
status_display(code) == Decimal(code) \o <<" ", canonical_reason(code)>>

\* the error arms with one message for every status
status_error_no_code(code) ==
    DeliveryError(Kind("AuthenticationFailed"), Some(<<"token request failed">>))

\* the error arms reporting an ApiError for statuses other than 401
status_error_api(code) ==
    IF code = 401
    THEN DeliveryError(Kind("AuthenticationFailed"),
                       Some(<<"token request returned ", "4", "0", "1">>))
    ELSE DeliveryError(KindApiError(code, Ok(<<>>)), None)

\* the arms of match result.status other than StatusCode::Ok
status_error(code) ==
    IF code = 401
    THEN LET msg == <<"token request returned ", "4", "0", "1">>
         IN DeliveryError(Kind("AuthenticationFailed"), Some(msg))
    ELSE LET msg == <<"token request returned ">> \o status_display(code)
         IN DeliveryError(Kind("AuthenticationFailed"), Some(msg))

\* a match that posts again when the server answers with an error status
match_status_retry(code) ==
    IF code = 200 THEN [pc |-> "read", ret |-> None]
    ELSE IF code >= 500 THEN [pc |-> "post", ret |-> None]
    ELSE [pc |-> "done", ret |-> Some(Err(status_error(code)))]

\* match result.status: go on to read the body, or return the error
match_status(code) ==
    IF code = 200 THEN [pc |-> "read", ret |-> None]
    ELSE [pc |-> "done", ret |-> Some(Err(status_error(code)))]

\* APIClient::new_https and APIClient::post of http/mod.rs
APIClient_new_https(srv, e) == [server |-> srv, ent |-> e, https |-> TRUE]
APIClient_post(cl, path, body) == [client |-> cl, path |-> path, payload |-> body]

----------------------------------------------------------------------------
(* What the collaborators can answer *)

IoErrors ==
    {[domain |-> "io::Error", variant |-> "ConnectionReset", info |-> "",
      description |-> "connection reset",
      display |-> "connection reset (os error 104)"],
     [domain |-> "io::Error", variant |-> "InvalidInput", info |-> "",
      description |-> "stream did not contain valid UTF-8",
      display |-> "stream did not contain valid UTF-8"]}

HttpErrors ==
    {[domain |-> "hyper::HttpError", variant |-> "HttpUriError", info |-> "",
      description |-> "Invalid Request URI specified"],
     [domain |-> "hyper::HttpError", variant |-> "HttpIoError", info |-> "",
      description |-> "An IO error occured while trying to do a HTTP request"]}

Abc123 == <<"a", "b", "c", "1", "2", "3">>

\* the tokens a server issues
Tokens == {Abc123, <<>>, <<"a", QUOTE>>, <<BSL, NL>>}

\* the body of a success response: {"token":"<t>"}
TokenBody(t) == <<"{">> \o emit_struct_field(0, FieldToken, t) \o <<"}">>

\* bodies that do not decode to a TokenResponse, and two that do with
\* more in them than the token
OtherBodies ==
    {<<>>,
     <<"{", "}">>,
     <<"{", QUOTE, "t", "o", "k", "e", "n", QUOTE, ":", "7", "}">>,
     <<"{", QUOTE, "t", "o", "k", "e", "n", QUOTE, ":", QUOTE, "a">>,
     <<"{", QUOTE, "t", "o", "k", QUOTE, ":", QUOTE, "a", QUOTE, "}">>,
     <<QUOTE, "a", QUOTE>>,
     TokenBody(<<"a">>) \o <<"x">>,
     <<"{", QUOTE, "t", "o", "k", "e", "n", QUOTE, ":", QUOTE, BSL, "q", QUOTE, "}">>,
     <<"{", QUOTE, "i", "d", QUOTE, ":", "1", ",">> \o Tail(TokenBody(<<"b">>)),
     <<"{">> \o emit_struct_field(0, FieldToken, <<"a">>)
             \o emit_struct_field(1, FieldToken, <<"b">>) \o <<"}">>}

Bodies == {TokenBody(t) : t \in Tokens} \cup OtherBodies

Servers == {"delivery.example.com", "10.0.0.1"}
Ents == {"Chef"}

\* the characters of the credentials of a call
CredAlphabet == {"a", QUOTE}
Creds == StringsUpTo(CredAlphabet, MaxLen)

----------------------------------------------------------------------------
(* request(): one call *)

ErrIdle == ext = None /\ error = None /\ seen = None
CodecIdle == treqUser = <<>> /\ treqPass = <<>> /\ text = None /\ decoded = None
ReqIdle ==
    /\ pc = "idle" /\ server = "" /\ ent = "" /\ user = <<>> /\ pass = <<>>
    /\ client = None /\ payload = None /\ posts = <<>> /\ response = None
    /\ body_string = None /\ result = None /\ steps = <<>>

Init ==
    /\ pc = "start"
    /\ server \in Servers /\ ent \in Ents
    /\ user \in Creds /\ pass \in Creds
    /\ client = None /\ payload = None /\ posts = <<>> /\ response = None
    /\ body_string = None /\ result = None /\ steps = <<>>
    /\ ErrIdle /\ CodecIdle

\* a step the call ran: which, whether the collaborator succeeded, and the
\* external error it failed with
Step(name, ok, err) == [step |-> name, ok |-> ok, err |-> err]

\* let client = APIClient::new_https(&server, &ent);
NewHttps ==
    /\ pc = "start"
    /\ client' = Some(APIClient_new_https(server, ent))
    /\ pc' = "payload"
    /\ UNCHANGED <<server, ent, user, pass, payload, posts, response,
                   body_string, result, steps>>
    /\ UNCHANGED <<errVars, codecVars>>

\* let payload = try!(TokenRequest::payload(&user, &pass));
Payload ==
    /\ pc = "payload"
    /\ \E writeOk \in BOOLEAN :
        LET r == TokenRequest_payload(user, pass, writeOk)
            t == Try(r, "post")
        IN /\ pc' = t.pc
           /\ result' = t.ret
           /\ payload' = IF r.ok THEN Some(r.val) ELSE None
           /\ steps' = Append(steps, Step("encode", writeOk,
                                      IF writeOk THEN None ELSE Some(EncoderError)))
    /\ UNCHANGED <<server, ent, user, pass, client, posts, response, body_string>>
    /\ UNCHANGED <<errVars, codecVars>>

\* let mut result = try!(client.post(&path, &payload));
\* the transport either fails or hands back a status and a body to read
Post ==
    /\ pc = "post"
    /\ LET path == format_path(user)
       IN posts' = Append(posts, APIClient_post(Unwrap(client), path, Unwrap(payload)))
    /\ \E r \in {Err(e) : e \in HttpErrors}
              \cup {Ok([status |-> st, body |-> b]) : st \in Statuses, b \in Bodies} :
        LET t == Try(r, "match")
        IN /\ pc' = t.pc
           /\ result' = t.ret
           /\ response' = IF r.ok THEN Some(r.val) ELSE None
           /\ steps' = Append(steps, Step("post", r.ok,
                                      IF r.ok THEN None ELSE Some(r.val)))
    /\ UNCHANGED <<server, ent, user, pass, client, payload, body_string>>
    /\ UNCHANGED <<errVars, codecVars>>

\* match result.status { ... }
Match ==
    /\ pc = "match"
    /\ LET m == match_status(Unwrap(response).status)
       IN /\ pc' = m.pc
          /\ result' = m.ret
    /\ steps' = Append(steps, Step("status", TRUE, None))
    /\ UNCHANGED <<server, ent, user, pass, client, payload, posts, response,
                   body_string>>
    /\ UNCHANGED <<errVars, codecVars>>

\* let _x = try!(result.read_to_string(&mut body_string));
Read ==
    /\ pc = "read"
    /\ \E r \in {Err(e) : e \in IoErrors} \cup {Ok(Unwrap(response).body)} :
        LET t == Try(r, "parse")
        IN /\ pc' = t.pc
           /\ result' = t.ret
           /\ body_string' = IF r.ok THEN Some(r.val) ELSE None
           /\ steps' = Append(steps, Step("read", r.ok,
                                      IF r.ok THEN None ELSE Some(r.val)))
    /\ UNCHANGED <<server, ent, user, pass, client, payload, posts, response>>
    /\ UNCHANGED <<errVars, codecVars>>

\* let token = try!(TokenResponse::parse_token(&body_string)); Ok(token)
\* (parse_token and the decoder are evaluated once for each body)
ParseTokenOf == [b \in Bodies |-> parse_token(b)]
DecodeOf == [b \in Bodies |-> decode_TokenResponse(b)]
Parsed == ParseTokenOf[Unwrap(body_string)]
ParsedStep ==
    IF DecodeOf[Unwrap(body_string)].ok
    THEN Step("parse", TRUE, None)
    ELSE Step("parse", FALSE, Some(DecodeOf[Unwrap(body_string)].val))

Parse ==
    /\ pc = "parse"
    /\ pc' = Try(Parsed, "done").pc
    /\ result' = IF Parsed.ok THEN Some(Ok(Parsed.val)) ELSE Try(Parsed, "done").ret
    /\ steps' = Append(steps, ParsedStep)
    /\ UNCHANGED <<server, ent, user, pass, client, payload, posts, response,
                   body_string>>
    /\ UNCHANGED <<errVars, codecVars>>

Next == NewHttps \/ Payload \/ Post \/ Match \/ Read \/ Parse

Spec == Init /\ [][Next]_vars

\* request() is straight-line code: a call that has not returned takes its
\* next step
FairSpec == Spec /\ WF_vars(Next)

----------------------------------------------------------------------------
(* The taxonomy on its own: an error is built, by a conversion or as a     *)
(* struct literal, and its accessors are read                              *)

DecoderErrors ==
    {DecoderError("ParseError", "EOFWhileParsingValue"),
     DecoderError("ExpectedError", "String"),
     DecoderError("MissingFieldError", "token")}

ParserErrors == {ParserError("InvalidSyntax"), ParserError("TrailingCharacters")}

\* the body-read result an ApiError carries
ApiBodies == {Ok(<<"n", "o">>), Ok(<<>>)} \cup {Err(e) : e \in IoErrors}

Kinds ==
    {Kind(t) : t \in BareKinds}
        \cup {KindHttpError(e) : e \in HttpErrors}
        \cup {KindApiError(st, b) : st \in Statuses \ {200}, b \in ApiBodies}

Details == {None, Some(<<"first">>), Some(<<"second">>)}

InitErr == ReqIdle /\ CodecIdle /\ ErrIdle

FromEncoderError ==
    /\ error = None
    /\ ext' = Some(EncoderError)
    /\ error' = Some(from_error_EncoderError(EncoderError))
    /\ UNCHANGED <<seen, reqVars, codecVars>>

FromDecoderError ==
    /\ error = None
    /\ \E e \in DecoderErrors :
        /\ ext' = Some(e)
        /\ error' = Some(from_error_DecoderError(e))
    /\ UNCHANGED <<seen, reqVars, codecVars>>

FromIoError ==
    /\ error = None
    /\ \E e \in IoErrors :
        /\ ext' = Some(e)
        /\ error' = Some(from_error_IoError(e))
    /\ UNCHANGED <<seen, reqVars, codecVars>>

FromParserError ==
    /\ error = None
    /\ \E e \in ParserErrors :
        /\ ext' = Some(e)
        /\ error' = Some(from_error_ParserError(e))
    /\ UNCHANGED <<seen, reqVars, codecVars>>

FromHttpError ==
    /\ error = None
    /\ \E e \in HttpErrors :
        /\ ext' = Some(e)
        /\ error' = Some(from_error_HttpError(e))
    /\ UNCHANGED <<seen, reqVars, codecVars>>

\* DeliveryError{ kind: .., detail: .. }
Construct ==
    /\ error = None
    /\ \E k \in Kinds, d \in Details : error' = Some(DeliveryError(k, d))
    /\ UNCHANGED <<ext, seen, reqVars, codecVars>>

\* the display layer reads the error
Inspect ==
    /\ error # None
    /\ seen = None
    /\ LET e == Unwrap(error)
       IN seen' = Some([description |-> description(e), display |-> display(e),
                        detail |-> detail(e), cause |-> cause(e)])
    /\ UNCHANGED <<ext, error, reqVars, codecVars>>

NextErr ==
    \/ FromEncoderError \/ FromDecoderError \/ FromIoError \/ FromParserError
    \/ FromHttpError \/ Construct \/ Inspect

SpecErr == InitErr /\ [][NextErr]_vars

----------------------------------------------------------------------------
(* The codec on its own: a payload is produced and decoded back *)

\* the credentials of token_request_payload_test
Alice == <<"a", "l", "i", "c", "e">>
Sesame123 == <<"s", "e", "s", "a", "m", "e", "1", "2", "3">>

InitCodec ==
    /\ ReqIdle /\ ErrIdle
    /\ \E c \in (Strings \X Strings) \cup {<<Alice, Sesame123>>} :
          treqUser = c[1] /\ treqPass = c[2]
    /\ text = None /\ decoded = None

CodecPayload ==
    /\ text = None
    /\ \E writeOk \in BOOLEAN :
        text' = Some(TokenRequest_payload(treqUser, treqPass, writeOk))
    /\ UNCHANGED <<treqUser, treqPass, decoded, reqVars, errVars>>

CodecDecode ==
    /\ text # None /\ Unwrap(text).ok
    /\ decoded = None
    /\ decoded' = Some(decode_TokenRequest(Unwrap(text).val))
    /\ UNCHANGED <<treqUser, treqPass, text, reqVars, errVars>>

NextCodec == CodecPayload \/ CodecDecode

SpecCodec == InitCodec /\ [][NextCodec]_vars

----------------------------------------------------------------------------
(* Properties *)

Done == pc = "done"
Status == Unwrap(response).status
Returned == Unwrap(result)
Failed(name) == \E i \in 1..Len(steps) : steps[i].step = name /\ ~steps[i].ok
Ran(name) == \E i \in 1..Len(steps) : steps[i].step = name

\* {"token":"abc123"}, as token_response_parse_token_test writes it
Abc123Body ==
    <<"{", QUOTE, "t", "o", "k", "e", "n", QUOTE, ":",
      QUOTE, "a", "b", "c", "1", "2", "3", QUOTE, "}">>

\* C1: when the payload was encoded, the POST answered 200, the body was
\* read and it decodes to a TokenResponse, request returns Ok of exactly the
\* body's token field ({"token":"abc123"} gives Ok("abc123")); and request
\* returns Ok only after a 200 response.
C1_TokenReturned ==
    /\ (Done /\ IsSome(response) /\ Status = 200 /\ IsSome(body_string)) =>
        /\ \A t \in Tokens :
              Unwrap(response).body = TokenBody(t) => result = Some(Ok(t))
        /\ Unwrap(response).body = Abc123Body => result = Some(Ok(Abc123))
        /\ LET d == decode_TokenResponse(Unwrap(response).body)
           IN d.ok => result = Some(Ok(d.val.token))
    /\ (IsSome(result) /\ Returned.ok) =>
        /\ Done /\ IsSome(response) /\ Status = 200
        /\ steps[1] = Step("encode", TRUE, None)

C1_Witness ==
    /\ Done /\ result = Some(Ok(Abc123))
    /\ Unwrap(response).body = Abc123Body

\* C2: for every response status other than 200 request returns Err with
\* kind AuthenticationFailed and a detail that contains the decimal digits
\* of the status; the body is neither read nor parsed.
C2_NonOkStatus ==
    (IsSome(response) /\ Status # 200 /\ Ran("status")) =>
        /\ Done
        /\ IsSome(result) /\ ~Returned.ok
        /\ Returned.val.kind = Kind("AuthenticationFailed")
        /\ IsSome(Returned.val.detail)
        /\ Contains(Unwrap(Returned.val.detail), Decimal(Status))
        /\ body_string = None
        /\ ~Ran("read") /\ ~Ran("parse")

C2_Witness ==
    /\ Done /\ IsSome(response) /\ Status = 503
    /\ Contains(Unwrap(Returned.val.detail), <<"5", "0", "3">>)

\* C3: when encoding the payload fails request returns Err with kind
\* JsonEncode and no POST is issued; a POST is only ever issued after a
\* successful encode.
C3_EncodeFailureNoPost ==
    /\ Failed("encode") =>
        /\ posts = <<>> /\ ~Ran("post")
        /\ Done /\ IsSome(result) /\ ~Returned.ok
        /\ Returned.val.kind = Kind("JsonEncode")
    /\ (posts # <<>> \/ Ran("post")) =>
        /\ steps[1] = Step("encode", TRUE, None)
        /\ IsSome(payload)
        /\ \A i \in 1..Len(posts) : posts[i].payload = Unwrap(payload)

C3_Witness ==
    /\ Done /\ Failed("encode") /\ posts = <<>>
    /\ Returned.val.kind.tag = "JsonEncode"

\* the external error a conversion was applied to, and the error it made
Converted == IsSome(ext) /\ IsSome(error)
Source == Unwrap(ext)
Made == Unwrap(error)

\* C4, as the claim states it: I/O failure to IoError, encode failure to
\* JsonEncode, DecoderError to JsonError, ParserError to JsonParseError,
\* transport failure to HttpError carrying the transport error; the detail
\* is the external error's description.
C4_AsClaimed ==
    Converted =>
        /\ Made.kind.tag =
              CASE Source.domain = "io::Error" -> "IoError"
                [] Source.domain = "json::EncoderError" -> "JsonEncode"
                [] Source.domain = "json::DecoderError" -> "JsonError"
                [] Source.domain = "json::ParserError" -> "JsonParseError"
                [] Source.domain = "hyper::HttpError" -> "HttpError"
        /\ Made.detail = Some(<<Source.description>>)
        /\ Source.domain = "hyper::HttpError" => Made.kind.arg = <<Source>>

\* C4, amended: I/O failure to IoError, encode failure to JsonEncode,
\* DecoderError to JsonParseError, ParserError to JsonError, transport
\* failure to HttpError carrying the transport error; the detail is the
\* external error's description(), and for an I/O failure the error as {}
\* formats it.
C4_Conversions ==
    Converted =>
        /\ Made.kind.tag =
              CASE Source.domain = "io::Error" -> "IoError"
                [] Source.domain = "json::EncoderError" -> "JsonEncode"
                [] Source.domain = "json::DecoderError" -> "JsonParseError"
                [] Source.domain = "json::ParserError" -> "JsonError"
                [] Source.domain = "hyper::HttpError" -> "HttpError"
        /\ Made.detail =
              IF Source.domain = "io::Error" THEN Some(<<Source.display>>)
              ELSE Some(<<Source.description>>)
        /\ Made.kind.arg =
              IF Source.domain = "hyper::HttpError" THEN <<Source>> ELSE <<>>

C4_Witness ==
    /\ Converted
    /\ Source.domain = "json::DecoderError"
    /\ Made.kind.tag = "JsonParseError"

\* C5: cause() is present exactly for HttpError and for ApiError whose
\* body-read result is a failure, and then it is the wrapped transport
\* error, respectively the wrapped I/O error.
C5_Cause ==
    IsSome(seen) =>
        LET k == Made.kind
            c == Unwrap(seen).cause
        IN /\ IsSome(c) <=>
                \/ k.tag = "HttpError"
                \/ k.tag = "ApiError" /\ ~k.arg[2].ok
           /\ k.tag = "HttpError" => c = Some(k.arg[1])
           /\ (k.tag = "ApiError" /\ ~k.arg[2].ok) => c = Some(k.arg[2].val)
           /\ (k.tag = "ApiError" /\ k.arg[2].ok) => c = None

C5_Witness ==
    /\ IsSome(seen)
    /\ Made.kind.tag = "ApiError" /\ ~Made.kind.arg[2].ok
    /\ Unwrap(seen).cause = Some(Made.kind.arg[2].val)

\* C7: display(error) is the description of the error's kind whatever the
\* detail is: an error of the same kind with any other detail has the same
\* display text, and the detail is no part of it.
C7_DisplayIsDescription ==
    IsSome(seen) =>
        /\ Unwrap(seen).display = <<Unwrap(seen).description>>
        /\ \A d \in Details :
              display(DeliveryError(Made.kind, d)) = Unwrap(seen).display
        /\ IsSome(Made.detail) =>
              ~Contains(Unwrap(seen).display, Unwrap(Made.detail))

C7_Witness ==
    /\ IsSome(seen)
    /\ Made.detail = Some(<<"second">>)
    /\ Unwrap(seen).display = <<"Git command failed!">>

\* C8: payload(user, pass) is a JSON object with exactly the fields
\* username, then password, holding user and pass; payload("alice",
\* "sesame123") is {"username":"alice","password":"sesame123"}; decoding
\* the text as a TokenRequest gives user and pass back.
C8_PayloadRoundTrip ==
    /\ (IsSome(text) /\ Unwrap(text).ok) =>
        LET t == Unwrap(text).val
            j == json_from_str(t)
        IN /\ j.ok /\ j.val.type = "Object"
           /\ j.val.v = <<[key |-> FieldUsername, value |-> JString(treqUser)],
                          [key |-> FieldPassword, value |-> JString(treqPass)]>>
           /\ (treqUser = Alice /\ treqPass = Sesame123) =>
                t = <<"{", QUOTE, "u", "s", "e", "r", "n", "a", "m", "e", QUOTE, ":",
                      QUOTE, "a", "l", "i", "c", "e", QUOTE, ",",
                      QUOTE, "p", "a", "s", "s", "w", "o", "r", "d", QUOTE, ":",
                      QUOTE, "s", "e", "s", "a", "m", "e", "1", "2", "3", QUOTE,
                      "}">>
    /\ IsSome(decoded) =>
        decoded = Some(Ok([username |-> treqUser, password |-> treqPass]))

C8_Witness ==
    /\ treqUser = <<QUOTE>> /\ treqPass = <<BSL, NL>>
    /\ IsSome(decoded) /\ Unwrap(decoded).ok
    /\ Unwrap(decoded).val.password = <<BSL, NL>>

\* the external steps of request, in program order
StepOrder == <<"encode", "post", "status", "read", "parse">>

\* C9: the first external failure ends the call with the conversion of that
\* failure and no later step runs: a transport failure returns HttpError
\* with the transport error as cause, before the status is inspected or the
\* body read; a body-read failure returns IoError and parse_token does not
\* run; a body that does not parse returns JsonParseError.
C9_FirstFailureEnds ==
    /\ \A i \in 1..Len(steps) :
          /\ steps[i].step = StepOrder[i]
          /\ i < Len(steps) => steps[i].ok
    /\ (steps # <<>> /\ ~steps[Len(steps)].ok) =>
          /\ Done /\ IsSome(result) /\ ~Returned.ok
          /\ IsSome(Returned.val.detail)
    /\ Failed("post") =>
          /\ Returned.val.kind.tag = "HttpError"
          /\ cause(Returned.val) = steps[2].err
          /\ ~Ran("status") /\ ~Ran("read") /\ ~Ran("parse")
          /\ response = None /\ body_string = None
    /\ Failed("read") =>
          /\ Returned.val.kind = Kind("IoError")
          /\ Returned.val.detail = Some(<<Unwrap(steps[4].err).display>>)
          /\ ~Ran("parse")
    /\ Failed("parse") =>
          /\ Returned.val.kind = Kind("JsonParseError")
          /\ Returned.val.detail = Some(<<Unwrap(steps[5].err).description>>)

C9_Witness ==
    /\ Done /\ Failed("read") /\ ~Ran("parse")
    /\ Returned.val.kind.tag = "IoError"

\* C10: every Err request returns has a detail and a kind among JsonEncode,
\* HttpError, IoError, JsonParseError and AuthenticationFailed; it is never
\* an ApiError and never without detail.
C10_ErrKinds ==
    (IsSome(result) /\ ~Returned.ok) =>
        /\ IsSome(Returned.val.detail)
        /\ Returned.val.kind.tag \in
              {"JsonEncode", "HttpError", "IoError", "JsonParseError",
               "AuthenticationFailed"}
        /\ Returned.val.kind.tag # "ApiError"

C10_Witness ==
    /\ Done /\ IsSome(response) /\ Status = 404
    /\ Returned.val.kind.tag = "AuthenticationFailed"
    /\ IsSome(Returned.val.detail)

\* C6: every call of request ends, with one outcome that is either a token
\* or a classified error and stays what it is, and with at most one POST
\* issued.
C6_OneOutcomeOnePost ==
    /\ <>Done
    /\ [](/\ Len(posts) <= 1
          /\ Done <=> IsSome(result)
          /\ IsSome(result) =>
               IF Returned.ok THEN Returned.val \in Seq(Alphabet \cup {"a", "b", "c", "1", "2", "3"})
               ELSE Returned.val.kind.tag \in BareKinds \cup {"HttpError", "ApiError"})
    /\ [][IsSome(result) => (result' = result /\ posts' = posts)]_vars

C6_Witness ==
    /\ Done /\ Len(posts) = 1
    /\ IsSome(result) /\ ~Returned.ok
    /\ Failed("parse")

====
